---- MODULE Spec2Model ----
(***************************************************************************)
(* Model of src/src/lib.rs: AsyncMsgQueue<T>, a multi-producer             *)
(* multi-consumer queue built from three independent mutexes               *)
(* (queue, state, writers).  Every action is one critical section of the   *)
(* code: the state and queue guards are temporaries dropped at the end of  *)
(* the statement that takes them, the writers guard of deregister_writer   *)
(* is held across the whole call to close().                               *)
(***************************************************************************)
EXTENDS Integers, Sequences, FiniteSets, TLC

\* ---- bounds of the model ----
NThreads == 3
MaxSends == 2
MaxRegs == 2
MaxDeregs == 2
MaxReads == 2
MaxTerminates == 1
MsgsPerProducer == 2
MaxPeekLen == 4
LockMaxCalls == 1

Threads == 1..NThreads

\* Option<Option<T>> as an integer: NoMsg is the outer None, Sentinel is
\* Some(None), a positive number n is Some(Some(message n)).
NoMsg == -1
Sentinel == 0

VARIABLES
    queue,          \* Queue<Option<T>>.vec, index 1 is vec[0]
    state,          \* MsgQueueState behind its mutex
    writers,        \* the usize behind the writers mutex, as an integer
                    \* congruent to it modulo 2^64 (-1 stands for usize::MAX)
    writersLock,    \* thread holding the writers guard, 0 when free
    writersPoisoned,\* the writers mutex was poisoned by a panic
    stateLock,      \* thread holding the state guard, 0 when free
    queueLock,      \* thread holding the queue guard, 0 when free
    overflowChecks, \* build profile: TRUE panics on overflow, FALSE wraps
    pc,             \* position of each thread
    temp,           \* the local `temp` of read()/pop() of each thread
    cur,            \* the message a thread is sending
    seen,           \* what the caller's last can_read() returned, "-" if unused
    readLate,       \* the running read began after a pop() had terminated
    sends,          \* history: one record per send call, index = message
    lastDereg,      \* history: the latest deregister_writer call
    popped,         \* history: messages in the order they left the buffer
    delivered,      \* history: messages returned by read, per thread
    eos,            \* history: a read of the thread has returned None
    eot,            \* history: number of times pop() consumed the sentinel
                    \* and terminated the queue
    nonePushed,     \* history: number of sentinels pushed by close()
    calls,          \* history: number of calls begun, per operation
    peeked,         \* history: the latest Queue::peek call
    producers,      \* the threads that follow the producer protocol
    script          \* how far each of them is in the protocol

vars == <<queue, state, writers, writersLock, writersPoisoned, overflowChecks,
          pc, temp, cur, seen, readLate, sends, lastDereg, popped,
          delivered, eos, eot, nonePushed, calls, producers, script,
          stateLock, queueLock, peeked>>

\* ---- Queue<T> ----
\* a push at the end the pop takes from
QueuePush_AtBack(vec, t) == Append(vec, t)

QueuePush(vec, t) == <<t>> \o vec

QueuePopValue(vec) == IF Len(vec) = 0 THEN NoMsg ELSE vec[Len(vec)]

\* a pop that removes the element before the last as well
QueuePopRest_TwoOff(vec) == IF Len(vec) = 0 THEN vec ELSE SubSeq(vec, 1, Len(vec) - 2)

\* a pop that leaves the last element in place
QueuePopRest_Keep(vec) == vec

QueuePopRest(vec) == IF Len(vec) = 0 THEN vec ELSE SubSeq(vec, 1, Len(vec) - 1)

\* Vec::get with a zero-based index: None when the index is out of bounds
VecGet(vec, i) == IF 0 <= i /\ i < Len(vec) THEN vec[i + 1] ELSE NoMsg

\* a peek at the element the next pop would take
QueuePeek_Last(vec) == VecGet(vec, Len(vec) - 1)

QueuePeek(vec) == VecGet(vec, Len(vec))

\* ---- MsgQueueState ----
\* a queue that is created closed
StateNew_Closed == "Closed"

StateNew == "Open"

\* a close that assigns nothing
StateClose_Keep(s) == s

StateClose(s) == "Closed"

StateTerminate(s) == "Terminated"

\* can_send that is always true
StateCanSend_Always(s) == TRUE

\* can_send with the test of can_read
StateCanSend_NotTerminated(s) == s # "Terminated"

StateCanSend(s) == s = "Open"

\* can_read with the test of can_send
StateCanRead_OnlyOpen(s) == s = "Open"

StateCanRead(s) == s # "Terminated"

\* ---- helpers ----
Range(s) == {s[i] : i \in 1..Len(s)}

Returns(t) == pc' = [pc EXCEPT ![t] = "idle"]

\* a guard that outlives the statement that took it
Unlock_Keep(t) == t

\* the guard of `self.state.lock()` / `self.queue.lock()` is a temporary of
\* the statement and is dropped at its end: the mutex is free again
Unlock(t) == 0

\* ---- AsyncMsgQueue::new ----
InitQueue == /\ queue = <<>>
             /\ state = StateNew
             /\ writers = 0
             /\ writersLock = 0
             /\ writersPoisoned = FALSE
             /\ stateLock = 0
             /\ queueLock = 0

InitCommon == /\ InitQueue
              /\ overflowChecks \in BOOLEAN
              /\ pc = [t \in Threads |-> "idle"]
              /\ temp = [t \in Threads |-> NoMsg]
              /\ cur = [t \in Threads |-> 0]
              /\ seen = [t \in Threads |-> "-"]
              /\ readLate = [t \in Threads |-> FALSE]
              /\ sends = <<>>
              /\ lastDereg = [before |-> 0, res |-> "-"]
              /\ popped = <<>>
              /\ delivered = [t \in Threads |-> <<>>]
              /\ eos = [t \in Threads |-> FALSE]
              /\ eot = 0
              /\ nonePushed = 0
              /\ calls = [op \in {"reg", "dereg", "read", "term"} |-> 0]
              /\ peeked = [done |-> FALSE, res |-> NoMsg, before |-> <<>>,
                           after |-> <<>>]

Init == /\ InitCommon
        /\ producers = {}
        /\ script = [t \in Threads |-> 0]

\* ---- AsyncMsgQueue::register_writer ----
RegisterWriter(t) ==
    /\ pc[t] = "idle"
    /\ calls' = [calls EXCEPT !["reg"] = @ + 1]
    /\ writersLock = 0
    /\ writers' = IF writersPoisoned THEN writers ELSE writers + 1
    /\ UNCHANGED <<queue, state, writersLock, writersPoisoned, overflowChecks,
                   pc, temp, cur, seen, readLate, sends, lastDereg, popped,
                   delivered, eos, eot, nonePushed, producers,
                   stateLock, queueLock, peeked>>

\* ---- AsyncMsgQueue::deregister_writer: lock, sub_assign, test for zero ----
\* res is what the call does: "None" and "Some" are its return values,
\* "Panic" is the overflow panic, "Close" is the call of close()
\* close() called when one writer is left
DeregisterOutcome_OneLeft(w, poisoned, checks) ==
    IF poisoned THEN [writers |-> w, res |-> "None"]
    ELSE IF w = 0 /\ checks THEN [writers |-> w, res |-> "Panic"]
    ELSE IF w - 1 = 1 THEN [writers |-> w - 1, res |-> "Close"]
    ELSE [writers |-> w - 1, res |-> "Some"]

\* close() called by every deregister_writer, whatever the count
DeregisterOutcome_NoTest(w, poisoned, checks) ==
    IF poisoned THEN [writers |-> w, res |-> "None"]
    ELSE IF w = 0 /\ checks THEN [writers |-> w, res |-> "Panic"]
    ELSE [writers |-> w - 1, res |-> "Close"]

DeregisterOutcome(w, poisoned, checks) ==
    IF poisoned THEN [writers |-> w, res |-> "None"]
    ELSE IF w = 0 /\ checks THEN [writers |-> w, res |-> "Panic"]
    ELSE IF w - 1 = 0 THEN [writers |-> w - 1, res |-> "Close"]
    ELSE [writers |-> w - 1, res |-> "Some"]

DeregisterWriter(t) ==
    /\ pc[t] = "idle"
    /\ calls' = [calls EXCEPT !["dereg"] = @ + 1]
    /\ writersLock = 0
    /\ LET o == DeregisterOutcome(writers, writersPoisoned, overflowChecks) IN
       /\ writers' = o.writers
       /\ lastDereg' = [before |-> writers, res |-> o.res]
       /\ writersPoisoned' = (writersPoisoned \/ o.res = "Panic")
       /\ writersLock' = IF o.res = "Close" THEN t ELSE 0
       /\ pc' = [pc EXCEPT ![t] = CASE o.res = "Close" -> "close_check"
                                    [] o.res = "Panic" -> "panicked"
                                    [] OTHER -> "idle"]
    /\ UNCHANGED <<queue, state, overflowChecks, temp, cur, seen, readLate,
                   sends, popped, delivered, eos, eot, nonePushed,
                   producers,
                   stateLock, queueLock, peeked>>

\* ---- AsyncMsgQueue::close: `if self.is_closed()? { return Some(()) }` ----
CloseCheck(t) ==
    /\ pc[t] = "close_check"
    /\ stateLock \in {0, t}
    /\ stateLock' = Unlock(t)
    /\ IF ~StateCanSend(state)
       THEN /\ Returns(t)
            /\ writersLock' = 0
       ELSE /\ pc' = [pc EXCEPT ![t] = "close_push"]
            /\ UNCHANGED writersLock
    /\ UNCHANGED <<queue, state, writers, writersPoisoned, overflowChecks,
                   temp, cur, seen, readLate, sends, lastDereg, popped,
                   delivered, eos, eot, nonePushed, calls, producers, script,
                   queueLock, peeked>>

\* ---- AsyncMsgQueue::close: `self.queue.lock().ok()?.push(None)` ----
ClosePush(t) ==
    /\ pc[t] = "close_push"
    /\ queueLock \in {0, t}
    /\ queueLock' = Unlock(t)
    /\ queue' = QueuePush(queue, Sentinel)
    /\ nonePushed' = nonePushed + 1
    /\ pc' = [pc EXCEPT ![t] = "close_set"]
    /\ UNCHANGED <<state, writers, writersLock, writersPoisoned, overflowChecks,
                   temp, cur, seen, readLate, sends, lastDereg, popped,
                   delivered, eos, eot, calls, producers, script,
                   stateLock, peeked>>

\* ---- AsyncMsgQueue::close: `self.state.lock().ok()?.close()`; on return
\* ---- deregister_writer drops the writers guard
CloseSet(t) ==
    /\ pc[t] = "close_set"
    /\ stateLock \in {0, t}
    /\ stateLock' = Unlock(t)
    /\ state' = StateClose(state)
    /\ writersLock' = 0
    /\ Returns(t)
    /\ UNCHANGED <<queue, writers, writersPoisoned, overflowChecks,
                   temp, cur, seen, readLate, sends, lastDereg, popped,
                   delivered, eos, eot, nonePushed, calls, producers, script,
                   queueLock, peeked>>

\* ---- AsyncMsgQueue::send is called ----
SendCall(t) ==
    /\ pc[t] = "idle"
    /\ sends' = Append(sends, [by |-> t, late |-> state # "Open", res |-> "pending"])
    /\ cur' = [cur EXCEPT ![t] = Len(sends) + 1]
    /\ pc' = [pc EXCEPT ![t] = "send_check"]
    /\ UNCHANGED <<queue, state, writers, writersLock, writersPoisoned,
                   overflowChecks, temp, seen, readLate, lastDereg, popped,
                   delivered, eos, eot, nonePushed, calls, producers, script,
                   stateLock, queueLock, peeked>>

\* ---- AsyncMsgQueue::send: `if !self.can_send()? { return None }` ----
SendCheck(t) ==
    /\ pc[t] = "send_check"
    /\ stateLock \in {0, t}
    /\ stateLock' = Unlock(t)
    /\ IF ~StateCanSend(state)
       THEN /\ Returns(t)
            /\ sends' = [sends EXCEPT ![cur[t]].res = "fail"]
            /\ cur' = [cur EXCEPT ![t] = 0]
       ELSE /\ pc' = [pc EXCEPT ![t] = "send_push"]
            /\ UNCHANGED <<sends, cur>>
    /\ UNCHANGED <<queue, state, writers, writersLock, writersPoisoned,
                   overflowChecks, temp, seen, readLate, lastDereg, popped,
                   delivered, eos, eot, nonePushed, calls, producers, script,
                   queueLock, peeked>>

\* ---- AsyncMsgQueue::send: `self.queue.lock().ok()?.push(Some(t))` ----
SendPush(t) ==
    /\ pc[t] = "send_push"
    /\ queueLock \in {0, t}
    /\ queueLock' = Unlock(t)
    /\ queue' = QueuePush(queue, cur[t])
    /\ sends' = [sends EXCEPT ![cur[t]].res = "ok"]
    /\ cur' = [cur EXCEPT ![t] = 0]
    /\ Returns(t)
    /\ UNCHANGED <<state, writers, writersLock, writersPoisoned, overflowChecks,
                   temp, seen, readLate, lastDereg, popped,
                   delivered, eos, eot, nonePushed, calls, producers, script,
                   stateLock, peeked>>

\* ---- AsyncMsgQueue::read is called ----
ReadCall(t) ==
    /\ pc[t] = "idle"
    /\ calls' = [calls EXCEPT !["read"] = @ + 1]
    /\ pc' = [pc EXCEPT ![t] = "pop_check"]
    /\ readLate' = [readLate EXCEPT ![t] = eot > 0]
    /\ seen' = [seen EXCEPT ![t] = "-"]
    /\ UNCHANGED <<queue, state, writers, writersLock, writersPoisoned,
                   overflowChecks, temp, cur, sends, lastDereg, popped,
                   delivered, eos, eot, nonePushed, producers, script,
                   stateLock, queueLock, peeked>>

\* ---- AsyncMsgQueue::pop: `if self.is_terminated()? { return None }` ----
PopCheck(t) ==
    /\ pc[t] = "pop_check"
    /\ stateLock \in {0, t}
    /\ stateLock' = Unlock(t)
    /\ pc' = [pc EXCEPT ![t] = IF ~StateCanRead(state) THEN "read_can_read"
                               ELSE "pop_take"]
    /\ UNCHANGED <<queue, state, writers, writersLock, writersPoisoned,
                   overflowChecks, temp, cur, seen, readLate, sends, lastDereg, popped, delivered, eos, eot, nonePushed, calls,
                   producers, script,
                   queueLock, peeked>>

\* ---- AsyncMsgQueue::pop: `let temp = self.queue.lock().ok()?.pop()` ----
PopTake(t) ==
    /\ pc[t] = "pop_take"
    /\ queueLock \in {0, t}
    /\ queueLock' = Unlock(t)
    /\ LET v == QueuePopValue(queue) IN
       /\ queue' = QueuePopRest(queue)
       /\ IF v = Sentinel
          THEN /\ pc' = [pc EXCEPT ![t] = "pop_terminate"]
               /\ UNCHANGED <<temp, popped>>
          ELSE /\ temp' = [temp EXCEPT ![t] = v]
               /\ pc' = [pc EXCEPT ![t] = "read_can_read"]
               /\ popped' = IF v = NoMsg THEN popped ELSE Append(popped, v)
    /\ UNCHANGED <<state, writers, writersLock, writersPoisoned, overflowChecks,
                   cur, seen, readLate, sends, lastDereg, delivered, eos, eot,
                   nonePushed, calls, producers, script,
                   stateLock, peeked>>

\* ---- AsyncMsgQueue::pop: `Some(None) => { self.terminate()?; None }` ----
PopTerminate(t) ==
    /\ pc[t] = "pop_terminate"
    /\ stateLock \in {0, t}
    /\ stateLock' = Unlock(t)
    /\ state' = StateTerminate(state)
    /\ eot' = eot + 1
    /\ temp' = [temp EXCEPT ![t] = NoMsg]
    /\ pc' = [pc EXCEPT ![t] = "read_can_read"]
    /\ UNCHANGED <<queue, writers, writersLock, writersPoisoned, overflowChecks,
                   cur, seen, readLate, sends, lastDereg, popped, delivered,
                   eos, nonePushed, calls, producers, script,
                   queueLock, peeked>>

\* ---- AsyncMsgQueue::read: `self.can_read()? && temp.is_none()`, and the
\* ---- final match once the loop is left
ReadCanRead(t) ==
    /\ pc[t] = "read_can_read"
    /\ stateLock \in {0, t}
    /\ stateLock' = Unlock(t)
    /\ IF StateCanRead(state) /\ temp[t] = NoMsg
       THEN /\ pc' = [pc EXCEPT ![t] = "pop_check"]
            /\ UNCHANGED <<delivered, eos, temp, readLate>>
       ELSE /\ Returns(t)
            /\ readLate' = [readLate EXCEPT ![t] = FALSE]
            /\ temp' = [temp EXCEPT ![t] = NoMsg]
            /\ IF temp[t] = NoMsg
               THEN /\ eos' = [eos EXCEPT ![t] = TRUE]
                    /\ UNCHANGED delivered
               ELSE /\ delivered' = [delivered EXCEPT ![t] = Append(@, temp[t])]
                    /\ UNCHANGED eos
    /\ UNCHANGED <<queue, state, writers, writersLock, writersPoisoned,
                   overflowChecks, cur, seen, sends, lastDereg, popped,
                   eot, nonePushed, calls, producers, script,
                   queueLock, peeked>>

\* ---- AsyncMsgQueue::terminate (public) ----
Terminate(t) ==
    /\ pc[t] = "idle"
    /\ stateLock \in {0, t}
    /\ stateLock' = Unlock(t)
    /\ calls' = [calls EXCEPT !["term"] = @ + 1]
    /\ state' = StateTerminate(state)
    /\ UNCHANGED <<queue, writers, writersLock, writersPoisoned, overflowChecks,
                   pc, temp, cur, seen, readLate, sends, lastDereg, popped,
                   delivered, eos, eot, nonePushed, producers, script,
                   queueLock, peeked>>

\* the steps inside a call, the same for every caller
Inside(t) ==
    \/ CloseCheck(t)
    \/ ClosePush(t)
    \/ CloseSet(t)
    \/ SendCheck(t)
    \/ SendPush(t)
    \/ PopCheck(t)
    \/ PopTake(t)
    \/ PopTerminate(t)
    \/ ReadCanRead(t)

\* ---- AsyncMsgQueue::can_read, as the loops of the tests call it ----
CanRead(t) ==
    /\ pc[t] = "idle"
    /\ stateLock \in {0, t}
    /\ stateLock' = Unlock(t)
    /\ seen[t] = "-"
    /\ seen' = [seen EXCEPT ![t] = IF StateCanRead(state) THEN "true" ELSE "false"]
    /\ UNCHANGED <<queue, state, writers, writersLock, writersPoisoned,
                   overflowChecks, pc, temp, cur, readLate, sends, lastDereg,
                   popped, delivered, eos, eot, nonePushed, calls, producers, script,
                   queueLock, peeked>>

\* any thread may call any operation at any time, within the bounds
Next ==
    \E t \in Threads :
        \/ calls["reg"] < MaxRegs /\ RegisterWriter(t) /\ UNCHANGED script
        \/ calls["dereg"] < MaxDeregs /\ DeregisterWriter(t) /\ UNCHANGED script
        \/ Len(sends) < MaxSends /\ SendCall(t)
        \/ calls["read"] < MaxReads /\ ReadCall(t)
        \/ calls["term"] < MaxTerminates /\ Terminate(t)
        \/ Inside(t)

Spec == Init /\ [][Next]_vars

\* ---- the threads of the tests: producers register, send their values and
\* ---- deregister; consumers run `while can_read()? { read() }`
Consumers == Threads \ producers

SentBy(t) == Cardinality({i \in 1..Len(sends) : sends[i].by = t})

SentOkBy(t) == Cardinality({i \in 1..Len(sends) : sends[i].by = t /\ sends[i].res = "ok"})

ProtoInit == /\ InitCommon
             /\ producers \in {1..k : k \in 1..(NThreads - 1)}
             /\ script = [t \in Threads |-> 0]

ProtoRegister(t) ==
    /\ t \in producers
    /\ script[t] = 0
    /\ RegisterWriter(t)
    /\ script' = [script EXCEPT ![t] = 1]

\* the tests register every writer before the writer threads are spawned
ProtoSend(t) ==
    /\ t \in producers
    /\ \A p \in producers : script[p] >= 1
    /\ script[t] = 1
    /\ SentBy(t) < MsgsPerProducer
    /\ SendCall(t)

\* `writer.send(n)?` leaves the thread without deregistering when a send fails
ProtoDeregister(t) ==
    /\ t \in producers
    /\ script[t] = 1
    /\ SentOkBy(t) = MsgsPerProducer
    /\ DeregisterWriter(t)
    /\ script' = [script EXCEPT ![t] = 2]

ProtoCanRead(t) ==
    /\ t \in Consumers
    /\ CanRead(t)

ProtoRead(t) ==
    /\ t \in Consumers
    /\ seen[t] = "true"
    /\ ReadCall(t)

ProtoStep(t) ==
    \/ ProtoRegister(t)
    \/ ProtoSend(t)
    \/ ProtoDeregister(t)
    \/ ProtoCanRead(t)
    \/ ProtoRead(t)
    \/ Inside(t)

ProtoNext == \E t \in Threads : ProtoStep(t)

ProtoSpec == ProtoInit /\ [][ProtoNext]_vars

\* every thread that can take a step is eventually scheduled
FairProtoSpec == ProtoSpec /\ \A t \in Threads : WF_vars(ProtoStep(t))

\* ---- the mutexes, one step for `lock()` and one for the rest of the
\* ---- statement: which mutex the statement a thread is at locks
LockOf(p) ==
    CASE p \in {"send_check", "close_check", "close_set", "pop_check",
                "pop_terminate", "read_can_read"} -> "state"
      [] p \in {"send_push", "close_push", "pop_take"} -> "queue"
      [] OTHER -> "none"

\* `self.state.lock()` returns once the mutex is free
LockState(t) ==
    /\ LockOf(pc[t]) = "state"
    /\ stateLock = 0
    /\ stateLock' = t
    /\ UNCHANGED <<queue, state, writers, writersLock, writersPoisoned,
                   overflowChecks, pc, temp, cur, seen, readLate, sends,
                   lastDereg, popped, delivered, eos, eot, nonePushed, calls,
                   producers, script, queueLock, peeked>>

\* `self.queue.lock()` returns once the mutex is free
LockQueue(t) ==
    /\ LockOf(pc[t]) = "queue"
    /\ queueLock = 0
    /\ queueLock' = t
    /\ UNCHANGED <<queue, state, writers, writersLock, writersPoisoned,
                   overflowChecks, pc, temp, cur, seen, readLate, sends,
                   lastDereg, popped, delivered, eos, eot, nonePushed, calls,
                   producers, script, stateLock, peeked>>

\* any thread may call any operation at any time, LockMaxCalls times each
LockNext ==
    \E t \in Threads :
        \/ calls["reg"] < LockMaxCalls /\ RegisterWriter(t) /\ UNCHANGED script
        \/ calls["dereg"] < LockMaxCalls /\ DeregisterWriter(t) /\ UNCHANGED script
        \/ Len(sends) < LockMaxCalls /\ SendCall(t)
        \/ calls["read"] < LockMaxCalls /\ ReadCall(t)
        \/ calls["term"] < LockMaxCalls /\ Terminate(t)
        \/ Inside(t)
        \/ LockState(t)
        \/ LockQueue(t)

LockSpec == Init /\ [][LockNext]_vars

\* ---- Queue<T> on its own: push, pop and peek in any order ----
PeekPush(v) ==
    /\ Len(queue) < MaxPeekLen
    /\ queue' = QueuePush(queue, v)
    /\ UNCHANGED <<state, writers, writersLock, writersPoisoned,
                   overflowChecks, pc, temp, cur, seen, readLate, sends,
                   lastDereg, popped, delivered, eos, eot, nonePushed, calls,
                   producers, script, stateLock, queueLock, peeked>>

PeekPop ==
    /\ queue' = QueuePopRest(queue)
    /\ UNCHANGED <<state, writers, writersLock, writersPoisoned,
                   overflowChecks, pc, temp, cur, seen, readLate, sends,
                   lastDereg, popped, delivered, eos, eot, nonePushed, calls,
                   producers, script, stateLock, queueLock, peeked>>

\* Queue::peek: `self.vec.get(self.vec.len())` reads the vector only
Peek ==
    /\ queue' = queue
    /\ peeked' = [done |-> TRUE, res |-> QueuePeek(queue), before |-> queue,
                  after |-> queue']
    /\ UNCHANGED <<state, writers, writersLock, writersPoisoned,
                   overflowChecks, pc, temp, cur, seen, readLate, sends,
                   lastDereg, popped, delivered, eos, eot, nonePushed, calls,
                   producers, script, stateLock, queueLock>>

PeekNext ==
    \/ \E v \in 0..MaxSends : PeekPush(v)
    \/ PeekPop
    \/ Peek

PeekSpec == Init /\ [][PeekNext]_vars

\* ======================= properties =======================

\* number of times message i was returned by a read, over all threads
TimesDelivered(i) ==
    Cardinality({<<t, k>> \in Threads \X (1..Len(popped)) :
                    k <= Len(delivered[t]) /\ delivered[t][k] = i})

SentOk == {i \in 1..Len(sends) : sends[i].res = "ok"}

InRead(t) == pc[t] \in {"pop_check", "pop_take", "pop_terminate", "read_can_read"}

Rank(s) == CASE s = "Open" -> 0 [] s = "Closed" -> 1 [] s = "Terminated" -> 2

\* C1: once a read has returned end-of-stream (and nobody called the public
\* terminate), every message whose send returned success has been taken out
\* of the buffer by a read: none is left undelivered.
C1_NoSentMessageLost ==
    (calls["term"] = 0 /\ \E t \in Threads : eos[t])
        => \A i \in SentOk : i \in Range(popped)

\* C2: the lifecycle state only moves forward, Open to Closed to Terminated,
\* and never backward; stated for the steps of runs in which deregister_writer
\* and read are the only callers (nobody has called the public terminate).
C2_MonotoneLifecycle == [][calls["term"]' = 0 => Rank(state') >= Rank(state)]_vars

AllProducersDone == \A p \in producers : script[p] = 2 /\ pc[p] = "idle"

\* C3: once every producer has deregistered, every read call that is running
\* eventually returns (under fair scheduling of the threads).
C3_ReadsReturn == \A t \in Threads : (AllProducersDone /\ InRead(t)) ~> ~InRead(t)

\* C4: one producer that registers, sends and deregisters, any number of
\* consumers: once every consumer has been given end-of-stream, the values
\* returned by read are exactly the values whose send succeeded, each once.
C4_ConservationOneProducer ==
    (Cardinality(producers) = 1 /\ \A c \in Consumers : eos[c])
        => \A i \in 1..Len(sends) : TimesDelivered(i) = IF i \in SentOk THEN 1 ELSE 0

C4_Witness ==
    /\ Cardinality(producers) = 1
    /\ Cardinality(Consumers) >= 2
    /\ \A c \in Consumers : eos[c]
    /\ Cardinality(SentOk) = MsgsPerProducer

\* C5: several producers, all registered before any of them sends, each
\* deregistering after its own last send: once every consumer has been given
\* end-of-stream, every value of every producer was sent with success and
\* was returned by read exactly once.
C5_ConservationProducers ==
    (Cardinality(producers) >= 2 /\ \A c \in Consumers : eos[c])
        => /\ SentOk = 1..(MsgsPerProducer * Cardinality(producers))
           /\ \A i \in SentOk : TimesDelivered(i) = 1

C5_Witness ==
    /\ Cardinality(producers) >= 2
    /\ \A c \in Consumers : eos[c]
    /\ \A p \in producers : SentOkBy(p) = MsgsPerProducer

SameSender(a, b) == sends[a].by = sends[b].by

InSendOrder(seq) ==
    \A j, k \in 1..Len(seq) : (j < k /\ SameSender(seq[j], seq[k])) => seq[j] < seq[k]

OnlySender(p) == producers = {p}

\* a consumer thread that has not called anything yet
NeverRead(t) == pc[t] = "idle" /\ seen[t] = "-" /\ ~eos[t] /\ delivered[t] = <<>>

OnlyReader(c) == c \in Consumers /\ \A t \in Consumers \ {c} : NeverRead(t)

\* C6: the messages of one producer leave the buffer in the order that
\* producer sent them (a message leaves only after the producer's earlier
\* ones), every consumer receives them in that order, and with one producer
\* and one consumer what was read is the beginning of what was sent, and all
\* of it once the consumer has been given end-of-stream.
C6_PerProducerFifo ==
    /\ InSendOrder(popped)
    /\ \A a, b \in SentOk :
          (a < b /\ SameSender(a, b) /\ b \in Range(popped)) => a \in Range(popped)
    /\ \A t \in Threads : InSendOrder(delivered[t])
    /\ \A p, c \in Threads :
          (OnlySender(p) /\ OnlyReader(c))
              => /\ \A k \in 1..Len(delivered[c]) :
                       /\ delivered[c][k] \in SentOk
                       /\ Cardinality({j \in SentOk : j <= delivered[c][k]}) = k
                 /\ eos[c] => Len(delivered[c]) = Cardinality(SentOk)

C6_Witness ==
    \E p, c \in Threads :
        /\ OnlySender(p)
        /\ OnlyReader(c)
        /\ eos[c]
        /\ Len(delivered[c]) = MsgsPerProducer
        /\ MsgsPerProducer >= 2

\* a consumer received two messages of one producer around one of another
C6_WitnessInterleaved ==
    \E c \in Threads :
        /\ Len(delivered[c]) >= 3
        /\ SameSender(delivered[c][1], delivered[c][3])
        /\ ~SameSender(delivered[c][1], delivered[c][2])

\* C7: no message is returned by more than one read, whether by one consumer
\* or by several; no message leaves the buffer twice.
C7_ExclusiveDelivery ==
    /\ \A i \in 1..Len(sends) :
          TimesDelivered(i) + Cardinality({t \in Threads : temp[t] = i}) <= 1
    /\ \A j, k \in 1..Len(popped) : j # k => popped[j] # popped[k]

C7_Witness ==
    \E t1, t2 \in Threads :
        /\ t1 # t2
        /\ delivered[t1] # <<>>
        /\ delivered[t2] # <<>>

\* C8: a send that is called when the state is already Closed or Terminated
\* does not succeed, never puts its value in the buffer, and its value is
\* never taken by a read.
C8_NoSendAfterClose ==
    \A i \in 1..Len(sends) :
        sends[i].late
            => /\ sends[i].res # "ok"
               /\ i \notin Range(queue)
               /\ i \notin Range(popped)
               /\ \A t \in Threads : pc[t] = "send_push" => cur[t] # i

C8_Witness ==
    \E i \in 1..Len(sends) : sends[i].late /\ sends[i].res = "fail"

C10_DeregisterAtZeroFails ==
    [][(calls["dereg"]' = calls["dereg"] + 1 /\ writers = 0)
          => /\ lastDereg'.res \in {"None", "Panic"}
             /\ writers' = 0
             /\ state' = state
             /\ queue' = queue]_vars

InClose(t) == pc[t] \in {"close_check", "close_push", "close_set"}

\* C11: when a deregister_writer that lowered the writer count to zero (and
\* so called close()) returns, the state is not Open, and a state that is
\* not Open never becomes Open again, so no later send finds can_send true.
C11_ClosedOnReturn ==
    [][/\ \A t \in Threads : (InClose(t) /\ pc'[t] = "idle") => state' # "Open"
       /\ state # "Open" => state' # "Open"]_vars

C11_Witness ==
    /\ lastDereg = [before |-> 1, res |-> "Close"]
    /\ \A t \in Threads : pc[t] = "idle"
    /\ state = "Closed"
    /\ nonePushed = 1

\* C12: a read returns without a message only in a step in which it finds
\* the state Terminated; with the state Open or Closed and nothing taken
\* from the buffer it goes round its loop again, so an empty buffer is never
\* reported to the caller.
C12_ReadersWait ==
    [][\A t \in Threads :
          pc[t] = "read_can_read"
              => /\ (pc'[t] = "idle" /\ delivered'[t] = delivered[t])
                        => state = "Terminated"
                 /\ (state # "Terminated" /\ temp[t] = NoMsg)
                        => pc'[t] \in {"read_can_read", "pop_check"}]_vars

C12_Witness ==
    \E t \in Threads : eos[t] /\ pc[t] = "idle" /\ delivered[t] # <<>>

\* C13: a new queue is Open with a writer count of zero, and as long as
\* nobody has called deregister_writer or terminate the state stays Open and
\* no send fails, whatever the writer count: every send that has finished
\* returned success and put its message in the buffer.
C13_FreshQueueAcceptsSends ==
    (calls["dereg"] = 0 /\ calls["term"] = 0)
        => /\ state = "Open"
           /\ writers = calls["reg"]
           /\ \A i \in 1..Len(sends) :
                 /\ sends[i].res # "fail"
                 /\ sends[i].res = "ok" => i \in Range(queue) \cup Range(popped)

C13_Witness ==
    /\ calls["reg"] = 0
    /\ calls["dereg"] = 0
    /\ writers = 0
    /\ \E i \in 1..Len(sends) : sends[i].res = "ok" /\ i \in Range(queue)

\* C14: in the step in which a send appends its message, the state is Open
\* and the buffer holds no end-of-stream marker.
C14_AppendOnlyWhenOpen ==
    [][\A t \in Threads :
          (pc[t] = "send_push" /\ pc'[t] = "idle")
              => state = "Open" /\ Sentinel \notin Range(queue)]_vars

\* C15: the state becomes Terminated only from Closed, never from Open;
\* stated for the steps of runs in which nobody has called the public
\* terminate, so for the reads that consume the end-of-stream marker.
C15_TerminatedOnlyFromClosed ==
    [][(calls["term"]' = 0 /\ state' = "Terminated" /\ state # "Terminated")
          => state = "Closed"]_vars

\* C16: the state becomes Closed only in the last step of a close() that was
\* called by a deregister_writer which lowered the writer count from one to
\* zero, while that call still holds the writers guard and the count is zero.
C16_ClosedOnlyAtZero ==
    [][(state' = "Closed" /\ state # "Closed")
          => \E t \in Threads :
                /\ pc[t] = "close_set"
                /\ pc'[t] # "close_set"
                /\ writersLock = t
                /\ writers = 0
                /\ lastDereg = [before |-> 1, res |-> "Close"]]_vars

\* of two registered writers the first to deregister left the state Open and
\* the second closed the queue
C16_Witness ==
    /\ calls["reg"] = 2
    /\ calls["dereg"] = 2
    /\ lastDereg = [before |-> 1, res |-> "Close"]
    /\ writers = 0
    /\ state = "Closed"

\* C18: close() pushes at most one end-of-stream marker over the lifetime of
\* the queue.
C18_OneSentinel == nonePushed <= 1

\* the count reached zero a second time, after a marker had been pushed
C18_Witness ==
    /\ nonePushed = 1
    /\ calls["reg"] = 2
    /\ calls["dereg"] = 2
    /\ \E t \in Threads : pc[t] = "close_check" /\ state # "Open"

Holder(l) == CASE l = "state" -> stateLock
               [] l = "queue" -> queueLock
               [] l = "writers" -> writersLock

\* the mutex a thread asks for in its next step and does not hold
Requests(t) == IF LockOf(pc[t]) # "none" /\ Holder(LockOf(pc[t])) # t
               THEN LockOf(pc[t]) ELSE "none"

WaitsFor(t, u) == Requests(t) # "none" /\ Holder(Requests(t)) = u

\* C17: a thread that asks for a mutex holds neither the state nor the queue
\* mutex; a thread outside every call, the only place from which the
\* writers mutex is asked for, holds no mutex; the writers mutex is held
\* only inside close(); and in no set of threads does every thread wait for
\* a mutex held by a thread of the set.
C17_NoLockDeadlock ==
    /\ \A t \in Threads :
          /\ Requests(t) # "none" => stateLock # t /\ queueLock # t
          /\ pc[t] = "idle" => stateLock # t /\ queueLock # t /\ writersLock # t
          /\ writersLock = t => InClose(t)
    /\ \A S \in SUBSET Threads \ {{}} :
          \E t \in S : \A u \in S : ~WaitsFor(t, u)

\* the three mutexes held by three threads, the holder of the writers mutex
\* waiting for the state mutex
C17_Witness ==
    \E t, u, v \in Threads :
        /\ writersLock = t
        /\ stateLock = u
        /\ queueLock = v
        /\ WaitsFor(t, u)

\* C19: every Queue::peek returned None and left the buffer as it was.
C19_PeekIsAlwaysNone ==
    peeked.done => peeked.res = NoMsg /\ peeked.after = peeked.before

C19_Witness ==
    /\ peeked.done
    /\ Len(peeked.before) = MaxPeekLen
    /\ peeked.before[MaxPeekLen] # Sentinel

====
